---- MODULE Spec2Model ----
(***************************************************************************)
(* Model of pharma-digital-twin: the process simulation engine            *)
(* (PharmaDataGenerator.generate_bioreactor_timeseries and the REST        *)
(* handlers that serve it), the spec-band evaluators, the hourly           *)
(* compliance windows, the contamination-risk and equipment-health        *)
(* scorers of the backend and of the DLT pipeline, the batch analytics     *)
(* table and the generated batch records, the audit-trail and alert        *)
(* lists, and the operator training simulator                              *)
(* (backend/utils/synthetic_data.py, backend/api/*.py,                     *)
(* databricks/02_dlt_workflows/pharma_manufacturing_dlt.py).  Each part    *)
(* has its own variables and its own specification.                        *)
(*                                                                         *)
(* Units.  All quantities are integers:                                    *)
(*   elapsed time        minutes            (hours = minutes / 60)         *)
(*   growth_factor       1/GFScale          (GFScale = 1.0)                *)
(*   temperature, ph, cell_density, glucose, lactate   hundredths         *)
(*   dissolved_oxygen    tenths             pressure   thousandths         *)
(*   random.random()     thousandths        normal draws  multiples of     *)
(*                                          their standard deviation       *)
(***************************************************************************)
EXTENDS Integers, Sequences, FiniteSets, Bags, TLC

VARIABLES
    seed,           \* the seed PharmaDataGenerator was constructed with
    npState,        \* state of numpy's process-global generator
    pyState,        \* state of the random module's process-global generator
    elapsed,        \* minutes the clock advanced between the last two readings
    pc,             \* "idle" | "loop": position inside generate_bioreactor_timeseries
    args,           \* arguments of the call in progress (or of the last call)
    num_points,     \* (hours * 60) // interval_minutes of that call
    i,              \* index of the next loop iteration
    cur,            \* the last loop iteration: locals and the row appended
    prev,           \* the loop iteration before it
    result,         \* outcome of the last finished call
    calls,          \* number of calls made so far
    callStart,      \* generator states at the start of the call in progress
    prevCall,       \* arguments and start states of the call before it
    ref,            \* replay of the previous call when its arguments were the same
    alone,          \* the same call replayed on a freshly seeded generator
    \* test_cell_growth_phases: a 168 h / 60 min run under arbitrary noise
    sample,         \* index of the next row of the run
    early_density,  \* sum of cell_density over df.iloc[:10], hundredths
    late_density,   \* sum of cell_density over df.iloc[-10:], hundredths
    \* the spec-band evaluators; temperature, ph, dissolved_oxygen in thousandths
    latest,         \* the sample evaluated
    all_specs_met,  \* silver_bioreactor_sensors: "True", "False", "dropped" or "unset"
    status,         \* get_current_status: "Operational", "Warning" or "unset"
    \* gold_bioreactor_hourly_metrics over the stream of silver rows
    bronze_len,     \* rows of bronze_bioreactor_sensors so far
    series_len,     \* rows of silver_bioreactor_sensors so far
    sensor_timestamp, \* timestamp of the last bronze row, minutes
    hourly,         \* the windows: hour_start -> reading_count, in_spec_count, ...
    \* the contamination risk scorers
    window_stats,   \* gold_contamination_risk: a window's ph_instability,
                    \* temp_instability, avg_do, thousandths
    risk,           \* gold_contamination_risk: the row emitted for the window
    beta_draw,      \* the Beta draw of the generator and of the endpoint, 1/10000
    contam_alert,   \* generate_contamination_alerts: the alert made from the draw
    realtime,       \* get_realtime_risk: the response made from the draw
    \* the equipment health scorers; health scores in thousandths unless said
    telemetry,      \* a bronze_equipment_sensors row: vibration_level
                    \* (thousandths), runtime_hours
    silver_health,  \* its silver_equipment_health row, or Absent("dropped")
    predictive,     \* its gold_predictive_maintenance row, or Absent("filtered")
    draws,          \* random draws: days_since_maintenance, wear noise
                    \* (thousandths), the endpoint's uniform(65, 98)
    equipment,      \* generate_equipment_health: the record made from the draws
    maint_alert,    \* get_maintenance_alerts: the record's alert, or Absent("none")
    endpoint_health, \* get_equipment_health: the response made from the draws
    \* the batch tables and records; percentages in thousandths unless said
    silver_cells,   \* cell_density of the silver_bioreactor_sensors rows, all of
                    \* bioreactor BR-01, thousandths
    analytics,      \* gold_batch_analytics: the rows of the table
    batch_draws,    \* the normal draws of one generated batch record
    batch,          \* generate_batch_records: the record made from the draws
    potency_test,   \* get_batch_details: result of the potency quality test
    \* the lists of generate_audit_trail and generate_contamination_alerts
    log_pc,         \* "idle" | "loop" | "returned"
    log_call,       \* the call: which generator, and its num_entries / num_alerts
    log_clock,      \* index in ClockReadings of the last datetime.now()
    log_entries,    \* the entries appended so far: time and timestamp string
    listing,        \* the list returned
    \* the operator training simulator
    simulator_sessions, \* session_id -> session
    sim_now,        \* datetime.now() of the last request, seconds
    sim_created,    \* number of sessions created so far
    sim_deleted,    \* the sessions deleted so far: <<session_id, serial>>
    sim_response    \* the response to the last request

\* the generator and its REST handler
genVars == <<seed, npState, pyState, elapsed, pc, args, num_points, i, cur, prev,
             result, calls, callStart, prevCall, ref, alone>>
\* the run of test_cell_growth_phases
noiseVars == <<sample, early_density, late_density>>

\* the spec-band evaluators
statusVars == <<latest, all_specs_met, status>>

\* the hourly metrics table
hourlyVars == <<bronze_len, series_len, sensor_timestamp, hourly>>

\* the contamination risk scorers
riskVars == <<window_stats, risk, beta_draw, contam_alert, realtime>>

\* the equipment health scorers
equipVars == <<telemetry, silver_health, predictive, draws, equipment,
               maint_alert, endpoint_health>>

\* the batch tables and records
batchVars == <<silver_cells, analytics, batch_draws, batch, potency_test>>

\* the audit trail and the alert list
logVars == <<log_pc, log_call, log_clock, log_entries, listing>>

\* the operator training simulator
simVars == <<simulator_sessions, sim_now, sim_created, sim_deleted, sim_response>>

vars == <<genVars, noiseVars, statusVars, hourlyVars, riskVars, equipVars,
          batchVars, logVars, simVars>>

-----------------------------------------------------------------------------
(* Bounds of the model *)

\* number of states of a modelled random generator
RngMod == 8
\* largest magnitude of a normal draw, in standard deviations
NormMax == 12
\* calls to the generator in one behaviour
MaxCalls == 2
\* minutes the clock may advance between two consecutive readings
MaxClockStep == 1

-----------------------------------------------------------------------------
(* Program constants *)

\* end of the lag phase, hours
T_lag == 24
\* end of the exponential phase, hours
T_exp == 96
\* end of the stationary phase, hours
T_stat == 144
\* hours over which the exponential ramp runs from 0 to 1
RampHours == 72
\* get_sensor_data: Query(24, ge=1, le=168)
HoursMin == 1
HoursMax == 168
\* get_sensor_data passes interval_minutes=5
SensorInterval == 5

\* growth_factor 1.0
GFScale == 72 * 600

NoRow == [none |-> TRUE]
NoCall == [none |-> TRUE]
\* a row or alert that is not emitted: "dropped", "filtered", "none"
Absent(why) == [absent |-> why]

-----------------------------------------------------------------------------
(* Python arithmetic *)

\* a // b for b # 0: floor division
PyFloorDiv(a, b) == IF b > 0 THEN a \div b ELSE (-a) \div (-b)

\* round(x / d) to the nearest integer, ties to even (Python's round)
PyRound(x, d) ==
    LET q == x \div d
        r == x - q * d
    IN  IF 2 * r < d THEN q
        ELSE IF 2 * r > d THEN q + 1
        ELSE IF q % 2 = 0 THEN q ELSE q + 1

\* int(x / d): truncation toward zero
PyInt(x, d) == IF x >= 0 THEN x \div d ELSE -((-x) \div d)

PyMax(a, b) == IF a >= b THEN a ELSE b

-----------------------------------------------------------------------------
(* The random sources.  A generator is a deterministic function of its     *)
(* state: one draw advances the state and returns a value computed from    *)
(* the new state.                                                          *)

\* random.seed(seed), np.random.seed(seed)
Seeded(s) == s % RngMod

\* one draw
Adv(s) == (5 * s + 1) % RngMod

\* np.random.normal(0, sigma) / sigma
NormalOf(s) == ((4 * s) % (2 * NormMax + 1)) - NormMax

\* np.random.randint(-3, 3): low inclusive, high exclusive
RandintOf(s) == -3 + (s % 6)

\* random.random(), thousandths, in [0, 1)
RandomOf(s) == ((s \div 2) * 1000) \div ((RngMod + 1) \div 2)

\* random.uniform(a, b) == a + (b - a) * random()
UniformOf(s, a, b) == a + ((b - a) * RandomOf(s)) \div 1000

-----------------------------------------------------------------------------
(* generate_bioreactor_timeseries: the body of one loop iteration *)

\* GrowthPhase with the lag test written `growth_phase_hours <= 24`
GrowthPhase_InclusiveLag(m) ==
    IF m <= T_lag * 60 THEN
        [phase |-> "lag", growth_factor |-> GFScale \div 10]
    ELSE IF m < T_exp * 60 THEN
        [phase |-> "exponential",
         growth_factor |-> ((m - T_lag * 60) * GFScale) \div (RampHours * 60)]
    ELSE IF m < T_stat * 60 THEN
        [phase |-> "stationary", growth_factor |-> GFScale]
    ELSE
        [phase |-> "death",
         growth_factor |-> GFScale - (m - T_stat * 60) * ((3 * GFScale) \div (24 * 60 * 10))]

\* phase and growth_factor at growth_phase_hours = m / 60
GrowthPhase(m) ==
    IF m < T_lag * 60 THEN
        [phase |-> "lag", growth_factor |-> GFScale \div 10]
    ELSE IF m < T_exp * 60 THEN
        [phase |-> "exponential",
         growth_factor |-> ((m - T_lag * 60) * GFScale) \div (RampHours * 60)]
    ELSE IF m < T_stat * 60 THEN
        [phase |-> "stationary", growth_factor |-> GFScale]
    ELSE
        [phase |-> "death",
         growth_factor |-> GFScale - (m - T_stat * 60) * ((3 * GFScale) \div (24 * 60 * 10))]

\* GrowthMinutes with the elapsed time counted from the first interval
GrowthMinutes_FromOne(idx, interval_minutes) == (idx + 1) * interval_minutes

\* elapsed minutes of iteration idx: growth_phase_hours = i * interval_minutes / 60
GrowthMinutes(idx, interval_minutes) == idx * interval_minutes

\* CellDensity without max(0, .)
CellDensity_NoClamp(gf, n) == PyRound(450 * gf + 10 * n * GFScale, GFScale)

\* cell_density, hundredths: round(max(0, cell_density), 2)
CellDensity(gf, n) == PyRound(PyMax(0, 450 * gf + 10 * n * GFScale), GFScale)

\* viable_cell_count: int(max(0, viable_cell_count))
ViableCellCount(gf, n) == PyInt(PyMax(0, 2500 * gf + 900000 * n), 9)

\* glucose, hundredths: round(max(0, glucose), 2)
Glucose(gf, n) == PyRound(PyMax(0, 1000 * GFScale - 850 * gf + 20 * n * GFScale), GFScale)

\* lactate, hundredths: round(max(0, lactate), 2)
Lactate(gf, n) == PyRound(PyMax(0, 320 * gf + 10 * n * GFScale), GFScale)

\* ph, hundredths: round(ph, 2); excursion in hundredths
Ph(gf, n, excursion) == PyRound((700 + 2 * n + excursion) * GFScale - 10 * gf, GFScale)

\* dissolved_oxygen, tenths: round(dissolved_oxygen, 1)
DissolvedOxygen(gf, n) == PyRound((450 + 20 * n) * GFScale - 50 * gf, GFScale)

\* temperature, hundredths: round(temperature, 2); excursion in hundredths
Temperature(n, excursion) == PyRound(3700 + 5 * n + excursion, 1)

\* Anomaly with both excursions applied in a step that is hit
Anomaly_Both(py, add_anomalies) ==
    LET p1 == Adv(py)
        p2 == Adv(p1)
        p3 == Adv(p2)
    IN  IF ~add_anomalies THEN [temp |-> 0, ph |-> 0, py |-> py]
        ELSE IF ~(RandomOf(p1) < 10) THEN [temp |-> 0, ph |-> 0, py |-> p1]
        ELSE [temp |-> UniformOf(p3, 50, 100), ph |-> UniformOf(p3, 30, 50), py |-> p3]

\* The anomaly block: which excursion the step receives and the state the
\* random module is left in.  `add_anomalies and random.random() < 0.01`
\* draws nothing when add_anomalies is false.
Anomaly(py, add_anomalies) ==
    LET p1 == Adv(py)
        p2 == Adv(p1)
        p3 == Adv(p2)
    IN  IF ~add_anomalies THEN [temp |-> 0, ph |-> 0, py |-> py]
        ELSE IF ~(RandomOf(p1) < 10) THEN [temp |-> 0, ph |-> 0, py |-> p1]
        ELSE IF RandomOf(p2) < 500
             THEN [temp |-> UniformOf(p3, 50, 100), ph |-> 0, py |-> p3]
             ELSE [temp |-> 0, ph |-> UniformOf(p3, 30, 50), py |-> p3]

\* One iteration of `for i, ts in enumerate(timestamps)`, started with the
\* generators in states np and py: the locals, the row appended to data and
\* the states the generators are left in.
LoopBody(np, py, a, idx, ts) ==
    LET m  == GrowthMinutes(idx, a.interval_minutes)
        g  == GrowthPhase(m)
        gf == g.growth_factor
        d1 == Adv(np)
        d2 == Adv(d1)
        d3 == Adv(d2)
        d4 == Adv(d3)
        d5 == Adv(d4)
        d6 == Adv(d5)
        d7 == Adv(d6)
        d8 == Adv(d7)
        d9 == Adv(d8)
        an == Anomaly(py, a.add_anomalies)
    IN  [minutes |-> m,
         growth_factor |-> gf,
         row |-> [timestamp |-> ts,
                  bioreactor_id |-> a.bioreactor_id,
                  temperature |-> Temperature(NormalOf(d1), an.temp),
                  ph |-> Ph(gf, NormalOf(d2), an.ph),
                  dissolved_oxygen |-> DissolvedOxygen(gf, NormalOf(d3)),
                  agitation_rpm |-> 120 + RandintOf(d4),
                  pressure |-> PyRound(1200 + 5 * NormalOf(d5), 1),
                  cell_density |-> CellDensity(gf, NormalOf(d6)),
                  viable_cell_count |-> ViableCellCount(gf, NormalOf(d7)),
                  glucose |-> Glucose(gf, NormalOf(d8)),
                  lactate |-> Lactate(gf, NormalOf(d9)),
                  phase |-> g.phase],
         np |-> d9,
         py |-> an.py]

\* num_points = (hours * 60) // interval_minutes
NumPoints(a) == PyFloorDiv(a.hours * 60, a.interval_minutes)

\* len(timestamps): range(num_points, 0, -1)
NumTimestamps(n) == PyMax(0, n)

\* Timestamp with the comprehension iterating range(1, num_points + 1)
Timestamp_RangeUp(a, n, k) == 0 - a.interval_minutes * (k + 1)

\* timestamps[k] = datetime.now() - timedelta(minutes=interval_minutes * i),
\* i = num_points - k: minutes relative to the clock reading of element k
Timestamp(a, n, k) == 0 - a.interval_minutes * (n - k)

-----------------------------------------------------------------------------
(* Inputs *)

BioreactorIds == {"BR-01"}

\* seed: int = 42
DefaultSeed == 42

\* seeds a PharmaDataGenerator is constructed with
Seeds == {0, DefaultSeed}

\* <<hours, interval_minutes, add_anomalies>> of direct calls of the generator
GeneratorArgs ==
    { <<24, 5, FALSE>>, <<168, 720, TRUE>>, <<1200, 1440, TRUE>>,
      <<0, 5, FALSE>>, <<1, 0, FALSE>>, <<1, 120, FALSE>>,
      <<-1, -5, FALSE>>, <<-1, 5, FALSE>> }

\* hours of requests to GET /{bioreactor_id}/sensors
SensorHours == {0, 1, 169}

-----------------------------------------------------------------------------
(* State machine *)

\* Each specification below runs one part of the program; the variables of
\* the other parts rest at their start values.
GenIdle ==
    /\ seed = DefaultSeed
    /\ npState = Seeded(DefaultSeed)
    /\ pyState = Seeded(DefaultSeed)
    /\ elapsed = 0
    /\ pc = "idle"
    /\ args = NoCall
    /\ num_points = 0
    /\ i = 0
    /\ cur = NoRow
    /\ prev = NoRow
    /\ result = "none"
    /\ calls = 0
    /\ callStart = NoCall
    /\ prevCall = NoCall
    /\ ref = NoCall
    /\ alone = NoCall

NoiseIdle ==
    /\ sample = 0
    /\ early_density = 0
    /\ late_density = 0

StatusIdle ==
    /\ latest = NoRow
    /\ all_specs_met = "unset"
    /\ status = "unset"

HourlyIdle ==
    /\ bronze_len = 0
    /\ series_len = 0
    /\ sensor_timestamp = 0
    /\ hourly = <<>>

RiskIdle ==
    /\ window_stats = NoRow
    /\ risk = NoRow
    /\ beta_draw = 0
    /\ contam_alert = NoRow
    /\ realtime = NoRow

EquipIdle ==
    /\ telemetry = NoRow
    /\ silver_health = NoRow
    /\ predictive = NoRow
    /\ draws = NoRow
    /\ equipment = NoRow
    /\ maint_alert = NoRow
    /\ endpoint_health = NoRow

BatchIdle ==
    /\ silver_cells = {}
    /\ analytics = {}
    /\ batch_draws = NoRow
    /\ batch = NoRow
    /\ potency_test = "unset"

LogIdle ==
    /\ log_pc = "idle"
    /\ log_call = NoCall
    /\ log_clock = 1
    /\ log_entries = <<>>
    /\ listing = <<>>

\* simulator_sessions: Dict[str, dict] = {}
NoSessions == [id \in {} |-> NoRow]

SimIdle ==
    /\ simulator_sessions = NoSessions
    /\ sim_now = 0
    /\ sim_created = 0
    /\ sim_deleted = {}
    /\ sim_response = NoCall

\* start values of every part but `part`
IdleExcept(part) ==
    /\ IF part # "generator" THEN GenIdle ELSE TRUE
    /\ IF part # "noise" THEN NoiseIdle ELSE TRUE
    /\ IF part # "status" THEN StatusIdle ELSE TRUE
    /\ IF part # "hourly" THEN HourlyIdle ELSE TRUE
    /\ IF part # "risk" THEN RiskIdle ELSE TRUE
    /\ IF part # "equipment" THEN EquipIdle ELSE TRUE
    /\ IF part # "batch" THEN BatchIdle ELSE TRUE
    /\ IF part # "log" THEN LogIdle ELSE TRUE
    /\ IF part # "simulator" THEN SimIdle ELSE TRUE

\* every part but `part` is left alone
UnchangedExcept(part) ==
    /\ IF part # "generator" THEN UNCHANGED genVars ELSE TRUE
    /\ IF part # "noise" THEN UNCHANGED noiseVars ELSE TRUE
    /\ IF part # "status" THEN UNCHANGED statusVars ELSE TRUE
    /\ IF part # "hourly" THEN UNCHANGED hourlyVars ELSE TRUE
    /\ IF part # "risk" THEN UNCHANGED riskVars ELSE TRUE
    /\ IF part # "equipment" THEN UNCHANGED equipVars ELSE TRUE
    /\ IF part # "batch" THEN UNCHANGED batchVars ELSE TRUE
    /\ IF part # "log" THEN UNCHANGED logVars ELSE TRUE
    /\ IF part # "simulator" THEN UNCHANGED simVars ELSE TRUE

\* PharmaDataGenerator(seed): the process-global generators are seeded
\* once, at construction.
Init ==
    /\ IdleExcept("generator")
    /\ seed \in Seeds
    /\ npState = Seeded(seed)
    /\ pyState = Seeded(seed)
    /\ elapsed = 0
    /\ pc = "idle"
    /\ args = NoCall
    /\ num_points = 0
    /\ i = 0
    /\ cur = NoRow
    /\ prev = NoRow
    /\ result = "none"
    /\ calls = 0
    /\ callStart = NoCall
    /\ prevCall = NoCall
    /\ ref = NoCall
    /\ alone = NoCall

\* Entry of generate_bioreactor_timeseries(a): num_points is computed and
\* the loop is entered; a zero interval raises ZeroDivisionError.
Enter(a) ==
    /\ calls' = calls + 1
    /\ args' = a
    /\ cur' = NoRow
    /\ prev' = NoRow
    /\ i' = 0
    /\ elapsed' = 0
    /\ callStart' = [np |-> npState, py |-> pyState]
    /\ alone' = [np |-> Seeded(seed), py |-> Seeded(seed), row |-> NoRow]
    /\ ref' = IF prevCall # NoCall /\ prevCall.args = a
              THEN [np |-> prevCall.np, py |-> prevCall.py, row |-> NoRow]
              ELSE NoCall
    /\ IF a.interval_minutes = 0
       THEN /\ result' = "ZeroDivisionError"
            /\ pc' = "idle"
            /\ num_points' = 0
       ELSE /\ result' = "none"
            /\ pc' = "loop"
            /\ num_points' = NumPoints(a)
    /\ UNCHANGED <<seed, npState, pyState, prevCall>>
    /\ UnchangedExcept("generator")

\* A direct call generate_bioreactor_timeseries(id, hours, interval, anomalies)
generate_bioreactor_timeseries ==
    /\ pc = "idle"
    /\ calls < MaxCalls
    /\ \E id \in BioreactorIds, g \in GeneratorArgs :
         Enter([bioreactor_id |-> id, hours |-> g[1],
                interval_minutes |-> g[2], add_anomalies |-> g[3]])

\* GET /{bioreactor_id}/sensors?hours=h: FastAPI validates ge=1, le=168 and
\* answers 422 otherwise; a valid request calls the shared generator with
\* interval_minutes=5, add_anomalies=True.
get_sensor_data ==
    /\ pc = "idle"
    /\ calls < MaxCalls
    /\ \E id \in BioreactorIds, h \in SensorHours :
         IF h >= HoursMin /\ h <= HoursMax
         THEN Enter([bioreactor_id |-> id, hours |-> h,
                     interval_minutes |-> SensorInterval, add_anomalies |-> TRUE])
         ELSE /\ result' = "HTTP 422"
              /\ calls' = calls + 1
              /\ UNCHANGED <<seed, npState, pyState, elapsed, pc, args, num_points,
                             i, cur, prev, callStart, prevCall, ref, alone>>
              /\ UnchangedExcept("generator")

\* One iteration of the loop.  timestamps[i] was read from the clock in the
\* comprehension that precedes the loop; its reading is taken here, the
\* clock having advanced by `step` since the reading of timestamps[i-1].
LoopIteration ==
    /\ pc = "loop"
    /\ i < NumTimestamps(num_points)
    /\ \E step \in 0..MaxClockStep :
         /\ elapsed' = IF i = 0 THEN 0 ELSE step
    /\ LET ts == Timestamp(args, num_points, i)
           b  == LoopBody(npState, pyState, args, i, ts)
       IN  /\ cur' = [minutes |-> b.minutes, growth_factor |-> b.growth_factor,
                      row |-> b.row]
           /\ prev' = cur
           /\ npState' = b.np
           /\ pyState' = b.py
           /\ i' = i + 1
           /\ ref' = IF ref = NoCall THEN NoCall
                     ELSE LET r == LoopBody(ref.np, ref.py, args, i, ts)
                          IN  [np |-> r.np, py |-> r.py, row |-> r.row]
           /\ alone' = LET r == LoopBody(alone.np, alone.py, args, i, ts)
                       IN  [np |-> r.np, py |-> r.py, row |-> r.row]
    /\ UNCHANGED <<seed, pc, args, num_points, result, calls, callStart, prevCall>>
    /\ UnchangedExcept("generator")

\* return pd.DataFrame(data)
ReturnSeries ==
    /\ pc = "loop"
    /\ i = NumTimestamps(num_points)
    /\ pc' = "idle"
    /\ result' = "series"
    /\ prevCall' = [args |-> args, np |-> callStart.np, py |-> callStart.py]
    /\ UNCHANGED <<seed, npState, pyState, elapsed, args, num_points, i, cur, prev,
                   calls, callStart, ref, alone>>
    /\ UnchangedExcept("generator")

Next ==
    \/ generate_bioreactor_timeseries
    \/ get_sensor_data
    \/ LoopIteration
    \/ ReturnSeries

Spec == Init /\ [][Next]_vars

-----------------------------------------------------------------------------
(* test_cell_growth_phases: generate_bioreactor_timeseries("BR-01",        *)
(* hours=168, interval_minutes=60) with the noise of every row's           *)
(* cell_density left open.                                                 *)

\* hours and interval_minutes of the run
TestHours == 168
TestInterval == 60
\* rows each mean is taken over: iloc[:10], iloc[-10:]
MeanRows == 10

\* cell-density noise draws, in standard deviations: cell_density does not
\* decrease when its draw increases, so the largest and smallest draws
\* bound every mean
Noises == {-NormMax, 0, NormMax}

\* rows of the run
TestRows == NumTimestamps(PyFloorDiv(TestHours * 60, TestInterval))

\* NoisyCellDensity with the growth factor left at its lag value
NoisyCellDensity_NoGrowth(k, n) == CellDensity(GFScale \div 10, n)

\* cell_density of row k of the run when its noise draw is n
NoisyCellDensity(k, n) ==
    CellDensity(GrowthPhase(GrowthMinutes(k, TestInterval)).growth_factor, n)

NoiseInit ==
    /\ IdleExcept("noise")
    /\ sample = 0
    /\ early_density = 0
    /\ late_density = 0

\* one loop iteration of the run; the row is added to the sums of the
\* means it belongs to
NoisyIteration ==
    /\ sample < TestRows
    /\ \E n \in Noises :
         LET d == NoisyCellDensity(sample, n)
         IN  /\ early_density' = IF sample < MeanRows
                                 THEN early_density + d ELSE early_density
             /\ late_density' = IF sample >= TestRows - MeanRows
                                THEN late_density + d ELSE late_density
    /\ sample' = sample + 1
    /\ UnchangedExcept("noise")

NoiseNext == NoisyIteration

NoiseSpec == NoiseInit /\ [][NoiseNext]_vars

-----------------------------------------------------------------------------
(* The spec-band evaluators: silver_bioreactor_sensors of the DLT pipeline *)
(* and GET /{bioreactor_id}/current.         Sample values in thousandths. *)

\* @dlt.expect_or_drop: temperature BETWEEN 30 AND 42, ph BETWEEN 5 AND 9,
\* dissolved_oxygen BETWEEN 0 AND 100
ValidReading(r) ==
    /\ 30000 <= r.temperature /\ r.temperature <= 42000
    /\ 5000 <= r.ph /\ r.ph <= 9000
    /\ 0 <= r.dissolved_oxygen /\ r.dissolved_oxygen <= 100000

\* within_spec_temp with the upper end of the band excluded
within_spec_temp_Exclusive(r) == r.temperature >= 36900 /\ r.temperature < 37100

\* (temperature >= 36.9) & (temperature <= 37.1)
within_spec_temp(r) == r.temperature >= 36900 /\ r.temperature <= 37100
\* all_specs_met = within_spec_temp & within_spec_ph & within_spec_do
AllSpecsMet(r) ==
    LET within_spec_ph == r.ph >= 6950 /\ r.ph <= 7050
        within_spec_do == r.dissolved_oxygen >= 40000 /\ r.dissolved_oxygen <= 50000
    IN  within_spec_temp(r) /\ within_spec_ph /\ within_spec_do

\* get_current_status: "Operational" if all([temp_ok, ph_ok, do_ok]) else
\* "Warning"
CurrentStatus(r) ==
    LET temp_ok == 36900 <= r.temperature /\ r.temperature <= 37100
        ph_ok == 6950 <= r.ph /\ r.ph <= 7050
        do_ok == 40000 <= r.dissolved_oxygen /\ r.dissolved_oxygen <= 50000
    IN  IF temp_ok /\ ph_ok /\ do_ok THEN "Operational" ELSE "Warning"

\* a row of generate_bioreactor_timeseries: temperature and ph rounded to
\* 2 decimals, dissolved_oxygen to 1
GeneratorRow(r) ==
    /\ r.temperature % 10 = 0
    /\ r.ph % 10 = 0
    /\ r.dissolved_oxygen % 100 = 0

\* samples: on, just inside and just outside each band end
Samples ==
    [temperature : {36890, 36899, 36900, 37100, 37101, 37110, 43000},
     ph : {6940, 6950, 7050, 7051},
     dissolved_oxygen : {39900, 40000, 50000, 50001}]

StatusInit ==
    /\ IdleExcept("status")
    /\ latest \in Samples
    /\ all_specs_met = "unset"
    /\ status = "unset"

\* the sample passes through silver_bioreactor_sensors: dropped by an
\* expectation or flagged
silver_bioreactor_sensors ==
    /\ all_specs_met = "unset"
    /\ all_specs_met' = IF ~ValidReading(latest) THEN "dropped"
                        ELSE IF AllSpecsMet(latest) THEN "True" ELSE "False"
    /\ UNCHANGED <<latest, status>>
    /\ UnchangedExcept("status")

\* GET /{bioreactor_id}/current with the sample as the last row of
\* the generated series
get_current_status ==
    /\ status = "unset"
    /\ GeneratorRow(latest)
    /\ status' = CurrentStatus(latest)
    /\ UNCHANGED <<latest, all_specs_met>>
    /\ UnchangedExcept("status")

StatusNext ==
    \/ silver_bioreactor_sensors
    \/ get_current_status

StatusSpec == StatusInit /\ [][StatusNext]_vars

-----------------------------------------------------------------------------
(* gold_bioreactor_hourly_metrics: the rows of silver_bioreactor_sensors   *)
(* grouped by window("sensor_timestamp", "1 hour").  Time in minutes.      *)

\* rows of the bronze stream in one behaviour
MaxRows == 4

\* window("sensor_timestamp", "1 hour"), withWatermark(.., "1 hour")
HourMinutes == 60

\* minutes between two consecutive rows of the rate source, whose
\* timestamps never decrease
RateSteps == {0, 30, 90}

\* bronze rows: in spec, out of spec (temperature 37.15) and dropped by
\* silver's expectations (temperature 43.0)
StreamRows ==
    { [temperature |-> t, ph |-> 7000, dissolved_oxygen |-> 45000] :
        t \in {37000, 37150, 43000} }

\* window.start of the tumbling window holding timestamp ts
WindowStart(ts) == (ts \div HourMinutes) * HourMinutes

\* spec_compliance_percent = in_spec_count / reading_count * 100, in
\* thousandths of a percent
CompliancePercent(in_spec_count, reading_count) ==
    (in_spec_count * 100000) \div reading_count

\* AggregateRow with the group's counts started afresh by every row
AggregateRow_Overwrite(h, ts, r, watermark) ==
    LET w == WindowStart(ts)
        n == IF AllSpecsMet(r) THEN 1 ELSE 0
        g == [reading_count |-> 1, in_spec_count |-> n,
              spec_compliance_percent |-> CompliancePercent(n, 1)]
    IN  [x \in DOMAIN h \cup {w} |-> IF x = w THEN g ELSE h[x]]

\* groupBy(window).agg(count("*"), sum(when(all_specs_met, 1).otherwise(0)))
\* after one more silver row r with timestamp ts; a row whose window ended
\* at or before the watermark is late and left out
AggregateRow(h, ts, r, watermark) ==
    LET w == WindowStart(ts)
        n == IF AllSpecsMet(r) THEN 1 ELSE 0
        old == IF w \in DOMAIN h THEN h[w]
               ELSE [reading_count |-> 0, in_spec_count |-> 0]
        g == [reading_count |-> old.reading_count + 1,
              in_spec_count |-> old.in_spec_count + n,
              spec_compliance_percent |->
                  CompliancePercent(old.in_spec_count + n, old.reading_count + 1)]
    IN  IF w + HourMinutes <= watermark THEN h
        ELSE [x \in DOMAIN h \cup {w} |-> IF x = w THEN g ELSE h[x]]

HourlyInit ==
    /\ IdleExcept("hourly")
    /\ bronze_len = 0
    /\ series_len = 0
    /\ sensor_timestamp \in {0, 45}
    /\ hourly = <<>>

\* one bronze row flows through silver_bioreactor_sensors (dropped when an
\* expectation fails) into gold_bioreactor_hourly_metrics
IngestRow ==
    /\ bronze_len < MaxRows
    /\ bronze_len' = bronze_len + 1
    /\ \E step \in RateSteps, r \in StreamRows :
         LET ts == sensor_timestamp + step
         IN  /\ sensor_timestamp' = ts
             /\ IF ValidReading(r)
                THEN /\ series_len' = series_len + 1
                     /\ hourly' = AggregateRow(hourly, ts, r,
                                                sensor_timestamp - HourMinutes)
                ELSE UNCHANGED <<series_len, hourly>>
    /\ UnchangedExcept("hourly")

HourlyNext == IngestRow

HourlySpec == HourlyInit /\ [][HourlyNext]_vars

-----------------------------------------------------------------------------
(* The contamination risk scorers: gold_contamination_risk of the DLT      *)
(* pipeline, generate_contamination_alerts and GET /realtime-risk/{id}.    *)
(* Window statistics and the windowed score in thousandths, Beta draws in  *)
(* 1/10000.                                                                *)

\* contamination_risk_score with nothing added for the dissolved oxygen
ContaminationRiskScore_NoOxygenTerm(w) ==
    (w.ph_instability * 2) + (w.temp_instability * 5)

\* (ph_instability * 2) + (temp_instability * 5)
\*     + when(avg_do < 40, 0.3).otherwise(0.05)
ContaminationRiskScore(w) ==
    (w.ph_instability * 2) + (w.temp_instability * 5)
        + (IF w.avg_do < 40000 THEN 300 ELSE 50)

\* risk_level: when(ph_instability * 2 + temp_instability * 5 > 0.5, "High")
\*     .when(.. > 0.2, "Medium").otherwise("Low")
RiskLevel(w) ==
    LET instability == (w.ph_instability * 2) + (w.temp_instability * 5)
    IN  IF instability > 500 THEN "High"
        ELSE IF instability > 200 THEN "Medium"
        ELSE "Low"

\* generate_contamination_alerts: status of risk_score b
AlertStatus(b) ==
    IF b < 3000 THEN "Low" ELSE IF b < 7000 THEN "Medium" ELSE "High"

\* get_realtime_risk: risk_level of risk_score b
RealtimeRiskLevel(b) ==
    IF b < 3000 THEN "Low" ELSE IF b < 7000 THEN "Medium" ELSE "High"

\* stddev(ph), stddev(temperature) and avg(dissolved_oxygen) of a window of
\* silver rows.  stddev is the sample standard deviation: over a window of
\* one row it is NULL, and such a window has no deviation fields here.
WindowStats ==
    [reading_count : {2},
     ph_instability : {0, 25, 50, 300},
     temp_instability : {0, 20, 36, 40, 100, 200},
     avg_do : {35000, 40000, 45000}]
    \cup [reading_count : {1}, avg_do : {35000, 45000}]

\* np.random.beta(2, 5), random.betavariate(2, 8): values in (0, 1)
BetaDraws == {1, 1999, 2000, 2001, 2500, 2996, 3000, 5000, 5001, 6999, 7000, 9999}

RiskInit ==
    /\ IdleExcept("risk")
    /\ window_stats \in WindowStats
    /\ beta_draw \in BetaDraws
    /\ risk = NoRow
    /\ contam_alert = NoRow
    /\ realtime = NoRow

\* the row of gold_contamination_risk for the window.  The score column is
\* the set of its values: empty when it is NULL.  An arithmetic expression
\* with a NULL operand is NULL, and a when() whose condition is NULL is not
\* taken, so a window of one row gets a NULL score and otherwise("Low").
gold_contamination_risk ==
    /\ risk = NoRow
    /\ risk' = IF window_stats.reading_count < 2
               THEN [contamination_risk_score |-> {}, risk_level |-> "Low"]
               ELSE [contamination_risk_score |-> {ContaminationRiskScore(window_stats)},
                     risk_level |-> RiskLevel(window_stats)]
    /\ UNCHANGED <<window_stats, beta_draw, contam_alert, realtime>>
    /\ UnchangedExcept("risk")

\* one alert of generate_contamination_alerts: risk_score rounded to 2
\* decimals (hundredths), status from the unrounded score
generate_contamination_alerts ==
    /\ contam_alert = NoRow
    /\ contam_alert' = [risk_score |-> PyRound(beta_draw, 100),
                        status |-> AlertStatus(beta_draw)]
    /\ UNCHANGED <<window_stats, risk, beta_draw, realtime>>
    /\ UnchangedExcept("risk")

\* GET /realtime-risk/{bioreactor_id}: risk_score rounded to 3 decimals
\* (thousandths), risk_level from the unrounded score
get_realtime_risk ==
    /\ realtime = NoRow
    /\ realtime' = [risk_score |-> PyRound(beta_draw, 10),
                    risk_level |-> RealtimeRiskLevel(beta_draw)]
    /\ UNCHANGED <<window_stats, risk, beta_draw, contam_alert>>
    /\ UnchangedExcept("risk")

RiskNext ==
    \/ gold_contamination_risk
    \/ generate_contamination_alerts
    \/ get_realtime_risk

RiskSpec == RiskInit /\ [][RiskNext]_vars

-----------------------------------------------------------------------------
(* The equipment health scorers: silver_equipment_health and               *)
(* gold_predictive_maintenance of the DLT pipeline,                        *)
(* generate_equipment_health, GET /{equipment_id}/health and               *)
(* GET /predictive-maintenance/alerts.                                     *)

\* health_score = 100 - (vibration_level * 10) - (runtime_hours / 500)
TelemetryHealth(t) == 100000 - (t.vibration_level * 10) - (t.runtime_hours * 2)

\* silver_equipment_health: status
TelemetryStatus(h) ==
    IF h >= 85000 THEN "Operational"
    ELSE IF h >= 70000 THEN "Warning"
    ELSE "Critical"

\* gold_predictive_maintenance: filter(health_score < 85), then
\* days_until_maintenance and maintenance_urgency
PredictiveRow(h) ==
    IF ~(h < 85000) THEN Absent("filtered")
    ELSE [health_score |-> h,
          days_until_maintenance |->
              IF h < 70000 THEN 7 ELSE IF h < 85000 THEN 30 ELSE 90,
          maintenance_urgency |->
              IF h < 70000 THEN "High" ELSE IF h < 85000 THEN "Medium" ELSE "Low"]

\* GeneratedHealth without the lower limit max(60, ..)
GeneratedHealth_NoFloor(d) ==
    LET base_health == 100000 - (d.days_since_maintenance * 40000) \div 180
        noisy == base_health + d.wear
    IN  IF noisy <= 100000 THEN noisy ELSE 100000

\* generate_equipment_health: base_health = 100 - (days / 180) * 40,
\* health_score = max(60, min(100, base_health + normal(0, 5)))
GeneratedHealth(d) ==
    LET base_health == 100000 - (d.days_since_maintenance * 40000) \div 180
        noisy == base_health + d.wear
    IN  PyMax(60000, IF noisy <= 100000 THEN noisy ELSE 100000)

\* generate_equipment_health: status of the (unrounded) health_score
GeneratedStatus(h) ==
    IF h >= 85000 THEN "Operational"
    ELSE IF h >= 70000 THEN "Warning"
    ELSE "Critical"

\* EndpointHealth with the Warning test written `health_score > 70`
EndpointHealth_StrictWarning(h) ==
    IF h >= 85000 THEN [status |-> "Operational", maintenance_urgency |-> "Low"]
    ELSE IF h > 70000 THEN [status |-> "Warning", maintenance_urgency |-> "Medium"]
    ELSE [status |-> "Critical", maintenance_urgency |-> "High"]

\* get_equipment_health: status and maintenance_urgency of health_score h
EndpointHealth(h) ==
    IF h >= 85000 THEN [status |-> "Operational", maintenance_urgency |-> "Low"]
    ELSE IF h >= 70000 THEN [status |-> "Warning", maintenance_urgency |-> "Medium"]
    ELSE [status |-> "Critical", maintenance_urgency |-> "High"]

\* get_maintenance_alerts: the alert of record eq (health_score in tenths)
MaintenanceAlert(eq) ==
    IF eq.health_score < 850
    THEN [severity |-> IF eq.health_score < 700 THEN "Critical" ELSE "Warning",
          health_score |-> eq.health_score]
    ELSE Absent("none")

\* bronze_equipment_sensors rows: vibration_level below 5 and runtime_hours
\* below 1000 as the rate source makes them, and vibration levels up to
\* the 10 that silver's expectation admits
TelemetryRows ==
    [vibration_level : {0, 1500, 3000, 4999, 9900, 10000},
     runtime_hours : {0, 5, 999}]

\* random.randint(0, 180), np.random.normal(0, 5), random.uniform(65, 98)
RandomDraws ==
    [days_since_maintenance : {0, 45, 90, 135, 180},
     wear : {-15000, -5040, -40, 0, 4960, 15000},
     uniform : {65000, 70000, 84960, 98000}]

\* the record generate_equipment_health appends: health_score rounded to 1
\* decimal (tenths), status of the unrounded score
EquipmentRecord(d) ==
    [health_score |-> PyRound(GeneratedHealth(d), 100),
     status |-> GeneratedStatus(GeneratedHealth(d))]

EquipInit ==
    /\ IdleExcept("equipment")
    /\ telemetry \in TelemetryRows
    /\ draws \in RandomDraws
    /\ silver_health = NoRow
    /\ predictive = NoRow
    /\ equipment = NoRow
    /\ maint_alert = NoRow
    /\ endpoint_health = NoRow

\* the telemetry row passes through silver_equipment_health: dropped by
\* expect_or_drop("vibration_level < 10") or scored
silver_equipment_health ==
    /\ silver_health = NoRow
    /\ silver_health' =
          IF ~(telemetry.vibration_level < 10000) THEN Absent("dropped")
          ELSE [health_score |-> TelemetryHealth(telemetry),
                status |-> TelemetryStatus(TelemetryHealth(telemetry))]
    /\ UNCHANGED <<telemetry, predictive, draws, equipment, maint_alert,
                   endpoint_health>>
    /\ UnchangedExcept("equipment")

\* the silver row passes through gold_predictive_maintenance
gold_predictive_maintenance ==
    /\ predictive = NoRow
    /\ silver_health # NoRow /\ silver_health # Absent("dropped")
    /\ predictive' = PredictiveRow(silver_health.health_score)
    /\ UNCHANGED <<telemetry, silver_health, draws, equipment, maint_alert,
                   endpoint_health>>
    /\ UnchangedExcept("equipment")

\* a direct call of generate_equipment_health: one record
generate_equipment_health ==
    /\ equipment = NoRow
    /\ equipment' = EquipmentRecord(draws)
    /\ UNCHANGED <<telemetry, silver_health, predictive, draws, maint_alert,
                   endpoint_health>>
    /\ UnchangedExcept("equipment")

\* GET /predictive-maintenance/alerts: the records are generated and an
\* alert is made of every record with health_score < 85
get_maintenance_alerts ==
    /\ maint_alert = NoRow
    /\ equipment' = EquipmentRecord(draws)
    /\ maint_alert' = MaintenanceAlert(EquipmentRecord(draws))
    /\ UNCHANGED <<telemetry, silver_health, predictive, draws, endpoint_health>>
    /\ UnchangedExcept("equipment")

\* GET /{equipment_id}/health: health_score rounded to 1 decimal (tenths),
\* status and urgency of the unrounded score
get_equipment_health ==
    /\ endpoint_health = NoRow
    /\ endpoint_health' =
          [health_score |-> PyRound(draws.uniform, 100),
           status |-> EndpointHealth(draws.uniform).status,
           maintenance_urgency |-> EndpointHealth(draws.uniform).maintenance_urgency]
    /\ UNCHANGED <<telemetry, silver_health, predictive, draws, equipment,
                   maint_alert>>
    /\ UnchangedExcept("equipment")

EquipNext ==
    \/ silver_equipment_health
    \/ gold_predictive_maintenance
    \/ generate_equipment_health
    \/ get_maintenance_alerts
    \/ get_equipment_health

EquipSpec == EquipInit /\ [][EquipNext]_vars

-----------------------------------------------------------------------------
(* The batch tables and records: gold_batch_analytics of the DLT pipeline,  *)
(* generate_batch_records and GET /{batch_id}.  A nullable column is the    *)
(* set of its values, empty when it is NULL.                                *)

\* bronze_batch_records: the two batches and their bioreactors
BronzeBatches ==
    {[batch_id |-> "B2024-001", bioreactor_id |-> "BR-01"],
     [batch_id |-> "B2024-002", bioreactor_id |-> "BR-02"]}

\* bronze_bioreactor_sensors: cell_density = 3.5 + rand() * 1.5
CellDensities == {3500, 4999}

\* rand() * 3
YieldNoise == {0, 1500, 2999}

\* sensors.groupBy("bioreactor_id").agg(max("cell_density")): one group per
\* bioreactor that has rows; every sensor row has lit("BR-01")
BatchSensorAgg(cells) ==
    IF cells = {} THEN {}
    ELSE {[bioreactor_id |-> "BR-01",
           max_cell_density_achieved |-> CHOOSE m \in cells : \A c \in cells : c <= m]}

\* batches.join(batch_sensor_agg, "bioreactor_id", "left") and
\* predicted_yield = lit(90) + (max_cell_density_achieved - 4) * 5 + rand() * 3:
\* a batch without a group gets NULL columns and a NULL predicted_yield
PredictedYield(b, agg, noise) ==
    {90000 + (g.max_cell_density_achieved - 4000) * 5 + noise :
         g \in {a \in agg : a.bioreactor_id = b.bioreactor_id}}

\* max(lo, min(hi, x)) without the upper limit
Clamp_LowerOnly(lo, hi, x) == IF x < lo THEN lo ELSE x

\* max(lo, min(hi, x))
Clamp(lo, hi, x) == IF x < lo THEN lo ELSE IF x > hi THEN hi ELSE x

\* the sampled metrics of a batch record: yield_percent, quality_score and
\* potency_percent rounded to 1 decimal (tenths), purity_percent to 2
\* (hundredths)
BatchRecord(d) ==
    [yield_percent |-> PyRound(Clamp(75000, 98000, d.yield), 100),
     quality_score |-> PyRound(Clamp(85000, 100000, d.quality), 100),
     purity_percent |-> PyRound(Clamp(95000, 100000, d.purity), 10),
     potency_percent |-> PyRound(Clamp(90000, 110000, d.potency), 100)]

\* "Pass" if 90 <= batch['potency_percent'] <= 110 else "Fail"
PotencyResult(b) ==
    IF 900 <= b.potency_percent /\ b.potency_percent <= 1100 THEN "Pass" ELSE "Fail"

\* np.random.normal(92, 4), (95, 3), (98, 1), (100, 5)
BatchDraws ==
    [yield : {60000, 75049, 97951, 120000},
     quality : {70000, 85049, 99951, 130000},
     purity : {90000, 95004, 99996, 104000},
     potency : {70000, 90049, 109951, 130000}]

BatchInit ==
    /\ IdleExcept("batch")
    /\ silver_cells \in SUBSET CellDensities
    /\ batch_draws \in BatchDraws
    /\ analytics = {}
    /\ batch = NoRow
    /\ potency_test = "unset"

\* one update of the gold_batch_analytics table
gold_batch_analytics ==
    /\ analytics = {}
    /\ \E noise \in [BronzeBatches -> YieldNoise] :
          analytics' = {[batch_id |-> b.batch_id,
                         predicted_yield |->
                             PredictedYield(b, BatchSensorAgg(silver_cells), noise[b])] :
                        b \in BronzeBatches}
    /\ UNCHANGED <<silver_cells, batch_draws, batch, potency_test>>
    /\ UnchangedExcept("batch")

\* one record of generate_batch_records
generate_batch_records ==
    /\ batch = NoRow
    /\ batch' = BatchRecord(batch_draws)
    /\ UNCHANGED <<silver_cells, analytics, batch_draws, potency_test>>
    /\ UnchangedExcept("batch")

\* GET /{batch_id}: the handler generates its records and derives the
\* potency quality test from the record it returns
get_batch_details ==
    /\ potency_test = "unset"
    /\ batch' = BatchRecord(batch_draws)
    /\ potency_test' = PotencyResult(batch')
    /\ UNCHANGED <<silver_cells, analytics, batch_draws>>
    /\ UnchangedExcept("batch")

BatchNext ==
    \/ gold_batch_analytics
    \/ generate_batch_records
    \/ get_batch_details

BatchSpec == BatchInit /\ [][BatchNext]_vars

-----------------------------------------------------------------------------
(* The lists of generate_audit_trail and generate_contamination_alerts:     *)
(* each entry is stamped datetime.now() - timedelta(hours = randint), the   *)
(* stamp is stored as its isoformat() string, and the list is returned      *)
(* sorted on that string, reverse = True.  A time is hour, second,          *)
(* microsecond; a string is the sequence of its character codes.            *)

\* largest num_entries / num_alerts followed
MaxEntries == 3

\* the hour of datetime.now()
NowHour == 800

\* second and microsecond of successive datetime.now() readings, in order
ClockReadings ==
    <<[second |-> 0, microsecond |-> 0], [second |-> 0, microsecond |-> 1],
      [second |-> 0, microsecond |-> 999999], [second |-> 1, microsecond |-> 0],
      [second |-> 1, microsecond |-> 100000]>>

\* random.randint(1, 720) of the audit trail, random.randint(1, 72) of the
\* alerts
HoursBack(kind) == IF kind = "audit" THEN {1, 2, 720} ELSE {1, 2, 72}

\* x written in `width` decimal digits, zero padded
Digits(x, width) ==
    [k \in 1..width |->
        48 + ((x \div (IF width - k = 0 THEN 1 ELSE 10 ^ (width - k))) % 10)]

\* datetime.isoformat(): fixed-width fields, and ".ffffff" only when the
\* microsecond is not 0
IsoFormat(t) ==
    Digits(t.hour, 3) \o <<58>> \o Digits(t.second, 2)
        \o (IF t.microsecond = 0 THEN <<>> ELSE <<46>> \o Digits(t.microsecond, 6))

\* a < b for str: the first differing character decides, a proper prefix
\* is smaller
StrLess(a, b) ==
    \E k \in 1..Len(b) :
        /\ \A j \in 1..(k - 1) : j <= Len(a) /\ a[j] = b[j]
        /\ (k > Len(a) \/ a[k] < b[k])

\* sorted(entries, key = timestamp) without reverse = True
SortedByTimestamp_Ascending(entries) ==
    LET RECURSIVE Sorted(_)
        Sorted(n) ==
            IF n = 0 THEN <<>>
            ELSE LET done == Sorted(n - 1)
                     x == entries[n]
                     before == SelectSeq(done,
                                 LAMBDA e : ~StrLess(x.timestamp, e.timestamp))
                     after == SelectSeq(done,
                                 LAMBDA e : StrLess(x.timestamp, e.timestamp))
                 IN  before \o <<x>> \o after
    IN  Sorted(Len(entries))

\* sorted(entries, key = lambda x: x['timestamp'], reverse = True): stable,
\* entries with equal strings keep their order
SortedByTimestamp(entries) ==
    LET RECURSIVE Sorted(_)
        Sorted(n) ==
            IF n = 0 THEN <<>>
            ELSE LET done == Sorted(n - 1)
                     x == entries[n]
                     before == SelectSeq(done,
                                 LAMBDA e : ~StrLess(e.timestamp, x.timestamp))
                     after == SelectSeq(done,
                                 LAMBDA e : StrLess(e.timestamp, x.timestamp))
                 IN  before \o <<x>> \o after
    IN  Sorted(Len(entries))

LogInit ==
    /\ IdleExcept("log")
    /\ log_pc = "idle"
    /\ log_call = NoCall
    /\ log_clock \in {1, 2}
    /\ log_entries = <<>>
    /\ listing = <<>>

\* generate_audit_trail(num_entries) is called
generate_audit_trail ==
    /\ log_pc = "idle"
    /\ \E n \in 0..MaxEntries : log_call' = [kind |-> "audit", num |-> n]
    /\ log_pc' = "loop"
    /\ UNCHANGED <<log_clock, log_entries, listing>>
    /\ UnchangedExcept("log")

\* generate_contamination_alerts(num_alerts) is called
generate_alert_list ==
    /\ log_pc = "idle"
    /\ \E n \in 0..MaxEntries : log_call' = [kind |-> "alerts", num |-> n]
    /\ log_pc' = "loop"
    /\ UNCHANGED <<log_clock, log_entries, listing>>
    /\ UnchangedExcept("log")

\* one iteration of the loop: the clock is read (never earlier than the
\* reading before) and the entry is appended
AppendEntry ==
    /\ log_pc = "loop"
    /\ Len(log_entries) < log_call.num
    /\ \E c \in log_clock..Len(ClockReadings), h \in HoursBack(log_call.kind) :
          LET t == [hour |-> NowHour - h, second |-> ClockReadings[c].second,
                    microsecond |-> ClockReadings[c].microsecond]
          IN  /\ log_clock' = c
              /\ log_entries' = Append(log_entries,
                                   [id |-> Len(log_entries) + 1, time |-> t,
                                    timestamp |-> IsoFormat(t)])
    /\ UNCHANGED <<log_pc, log_call, listing>>
    /\ UnchangedExcept("log")

\* the loop is over: return sorted(..., reverse = True)
ReturnList ==
    /\ log_pc = "loop"
    /\ Len(log_entries) >= log_call.num
    /\ listing' = SortedByTimestamp(log_entries)
    /\ log_pc' = "returned"
    /\ UNCHANGED <<log_call, log_clock, log_entries>>
    /\ UnchangedExcept("log")

LogNext ==
    \/ generate_audit_trail
    \/ generate_alert_list
    \/ AppendEntry
    \/ ReturnList

LogSpec == LogInit /\ [][LogNext]_vars

-----------------------------------------------------------------------------
(* The operator training simulator (backend/api/simulator.py): the          *)
(* in-memory dictionary of sessions and its five handlers.  A handler runs  *)
(* without awaiting, so each request is one step.  actions_taken is read    *)
(* only through len() and through membership tests on its records' action   *)
(* names: it is kept as the bag of those names.                             *)

\* sessions created in one run
MaxCreates == 2
\* action records of a run with one session
MaxActions == 6
\* action records of a run with more than one session
MaxSharedActions == MaxActions \div 3

\* the keys of `scenarios`
Scenarios == {"contamination", "deviation", "maintenance"}

\* scenarios[scenario]["correct_actions"]
CorrectActions(scenario) ==
    CASE scenario = "contamination" ->
           {"stop_feeding", "increase_sampling_frequency", "create_deviation_report",
            "notify_qa", "prepare_batch_disposal"}
      [] scenario = "deviation" ->
           {"record_exact_temperature_and_time", "check_historical_data",
            "assess_impact_on_yield", "create_deviation", "request_qa_review"}
      [] scenario = "maintenance" ->
           {"schedule_immediate_inspection", "plan_batch_transfer",
            "notify_maintenance", "create_work_order", "update_equipment_status"}

\* len(session["objectives"]): five in every scenario
TotalObjectives == 5

\* the same points whatever the difficulty
PointsEarned_Flat(difficulty) == 10

\* points of a correct action
PointsEarned(difficulty) ==
    IF difficulty = "hard" THEN 20 ELSE IF difficulty = "medium" THEN 15 ELSE 10

\* f"SIM-{datetime.now().strftime('%Y%m%d%H%M%S')}-{random.randint(1000, 9999)}"
SessionId(now, draw) == <<now, draw>>

\* random.randint(1000, 9999)
IdDraws == {1000, 9999}

\* datetime.now() to the second ('%Y%m%d%H%M%S'): the requests followed
\* arrive within one second
SimSeconds == {0}

\* an id no create can have made
UnknownId == SessionId(0, 0)

\* bodies of POST /create-session
CreateRequests ==
    {[scenario |-> "contamination", difficulty |-> "hard"],
     [scenario |-> "contamination", difficulty |-> "medium"],
     [scenario |-> "maintenance", difficulty |-> "easy"],
     [scenario |-> "sabotage", difficulty |-> "medium"]}

\* the `action` of POST /{session_id}/action
RequestActions ==
    CorrectActions("contamination") \cup {"schedule_immediate_inspection"}

\* random.randint(1, 5); time_elapsed_minutes is only added to and reported
ElapsedDraws == {3}

\* the session_id of a request: a stored one, a deleted one, an unknown one
RequestIds ==
    DOMAIN simulator_sessions \cup {d[1] : d \in sim_deleted} \cup {UnknownId}

\* records of correct actions in actions_taken, repeated ones counted
\* each time: sum(1 for action in actions_taken if action in correct_actions)
CorrectRecords(session) ==
    BagCardinality([a \in {x \in BagToSet(session.actions_taken) :
                               x \in CorrectActions(session.scenario)}
                       |-> CopiesIn(a, session.actions_taken)])

\* any(..) in place of all(..)
AllCorrectActionsDone_Any(session) ==
    \E ca \in CorrectActions(session.scenario) : BagIn(ca, session.actions_taken)

\* all(ca in correct_actions_taken for ca in session["correct_actions"])
AllCorrectActionsDone(session) ==
    \A ca \in CorrectActions(session.scenario) : BagIn(ca, session.actions_taken)

\* action records of all sessions
TotalRecorded ==
    LET RECURSIVE Sum(_)
        Sum(ids) ==
            IF ids = {} THEN 0
            ELSE LET id == CHOOSE x \in ids : TRUE
                 IN  BagCardinality(simulator_sessions[id].actions_taken)
                       + Sum(ids \ {id})
    IN  Sum(DOMAIN simulator_sessions)

NotFound(op, id) ==
    [op |-> op, session_id |-> id, code |-> 404,
     detail |-> "Simulator session not found"]

SimInit ==
    /\ IdleExcept("simulator")
    /\ simulator_sessions = NoSessions
    /\ sim_now = 0
    /\ sim_created = 0
    /\ sim_deleted = {}
    /\ sim_response = NoCall

\* session_config as create_simulator_session stores it; serial numbers the
\* sessions in the order of their creation
NewSession(req, serial) ==
    [scenario |-> req.scenario, difficulty |-> req.difficulty, status |-> "active",
     score |-> 0, actions_taken |-> EmptyBag, time_elapsed_minutes |-> 0,
     serial |-> serial]

\* POST /create-session
create_simulator_session ==
    /\ sim_created < MaxCreates
    /\ \/ TotalRecorded < MaxSharedActions
       \/ \E id \in DOMAIN simulator_sessions :
             simulator_sessions[id].status = "completed"
    /\ \E req \in CreateRequests, now \in {t \in SimSeconds : t >= sim_now}, draw \in IdDraws :
          LET session_id == SessionId(now, draw)
          IN  /\ sim_now' = now
              /\ IF req.scenario \notin Scenarios
                 THEN /\ sim_response' = [op |-> "create", session_id |-> session_id,
                                          code |-> 400, detail |-> "Invalid scenario"]
                      /\ UNCHANGED <<simulator_sessions, sim_created>>
                 ELSE /\ simulator_sessions' =
                            [id \in DOMAIN simulator_sessions \cup {session_id} |->
                                IF id = session_id
                                THEN NewSession(req, sim_created + 1)
                                ELSE simulator_sessions[id]]
                      /\ sim_created' = sim_created + 1
                      /\ sim_response' = [op |-> "create", session_id |-> session_id,
                                          code |-> 200]
    /\ UNCHANGED sim_deleted
    /\ UnchangedExcept("simulator")

\* GET /{session_id}/status; progress_percent rounded to 1 decimal (tenths)
get_simulator_status ==
    /\ \E id \in RequestIds :
          IF id \notin DOMAIN simulator_sessions
          THEN sim_response' = NotFound("status", id)
          ELSE LET session == simulator_sessions[id]
                   completed_objectives == CorrectRecords(session)
               IN  sim_response' =
                     [op |-> "status", session_id |-> id, code |-> 200,
                      status |-> session.status,
                      progress_percent |->
                          PyRound(completed_objectives * 1000, TotalObjectives),
                      completed_objectives |-> completed_objectives,
                      total_objectives |-> TotalObjectives,
                      score |-> session.score,
                      time_elapsed_minutes |-> session.time_elapsed_minutes,
                      actions_taken |-> BagCardinality(session.actions_taken)]
    /\ UNCHANGED <<simulator_sessions, sim_now, sim_created, sim_deleted>>
    /\ UnchangedExcept("simulator")

\* POST /{session_id}/action
perform_simulator_action ==
    /\ \E id \in RequestIds, action \in RequestActions, minutes \in ElapsedDraws :
          IF id \notin DOMAIN simulator_sessions
          THEN /\ sim_response' = NotFound("action", id)
               /\ UNCHANGED simulator_sessions
          ELSE IF simulator_sessions[id].status # "active"
          THEN /\ sim_response' = [op |-> "action", session_id |-> id, code |-> 400,
                                   detail |-> "Session is not active"]
               /\ UNCHANGED simulator_sessions
          ELSE LET session == simulator_sessions[id]
                   is_correct == action \in CorrectActions(session.scenario)
                   points_earned ==
                       IF is_correct THEN PointsEarned(session.difficulty) ELSE -5
                   recorded ==
                       [session EXCEPT
                           !.actions_taken = @ (+) SetToBag({action}),
                           !.time_elapsed_minutes = @ + minutes,
                           !.score = @ + points_earned]
                   after ==
                       [recorded EXCEPT
                           !.status = IF AllCorrectActionsDone(recorded)
                                      THEN "completed" ELSE @]
               IN  /\ TotalRecorded <
                          (IF sim_created <= 1 THEN MaxActions ELSE MaxSharedActions)
                   /\ simulator_sessions' = [simulator_sessions EXCEPT ![id] = after]
                   /\ sim_response' =
                         [op |-> "action", session_id |-> id, code |-> 200,
                          is_correct |-> is_correct, points_earned |-> points_earned,
                          total_score |-> after.score, session_status |-> after.status]
    /\ UNCHANGED <<sim_now, sim_created, sim_deleted>>
    /\ UnchangedExcept("simulator")

\* GET /{session_id}/summary
get_simulator_summary ==
    /\ \E id \in RequestIds :
          IF id \notin DOMAIN simulator_sessions
          THEN sim_response' = NotFound("summary", id)
          ELSE LET session == simulator_sessions[id]
                   correct_actions == CorrectRecords(session)
                   total_actions == BagCardinality(session.actions_taken)
               IN  sim_response' =
                     [op |-> "summary", session_id |-> id, code |-> 200,
                      status |-> session.status,
                      final_score |-> session.score,
                      time_elapsed_minutes |-> session.time_elapsed_minutes,
                      total_actions |-> total_actions,
                      correct_actions |-> correct_actions,
                      incorrect_actions |-> total_actions - correct_actions,
                      completed_objectives |-> correct_actions,
                      total_objectives |-> TotalObjectives]
    /\ UNCHANGED <<simulator_sessions, sim_now, sim_created, sim_deleted>>
    /\ UnchangedExcept("simulator")

\* DELETE /{session_id}
delete_simulator_session ==
    /\ \E id \in RequestIds :
          IF id \in DOMAIN simulator_sessions
          THEN /\ simulator_sessions' =
                     [x \in DOMAIN simulator_sessions \ {id} |-> simulator_sessions[x]]
               /\ sim_deleted' =
                     sim_deleted \cup {<<id, simulator_sessions[id].serial>>}
               /\ sim_response' = [op |-> "delete", session_id |-> id, code |-> 200]
          ELSE /\ sim_response' = NotFound("delete", id)
               /\ UNCHANGED <<simulator_sessions, sim_deleted>>
    /\ UNCHANGED <<sim_now, sim_created>>
    /\ UnchangedExcept("simulator")

SimNext ==
    \/ create_simulator_session
    \/ get_simulator_status
    \/ perform_simulator_action
    \/ get_simulator_summary
    \/ delete_simulator_session

SimSpec == SimInit /\ [][SimNext]_vars

-----------------------------------------------------------------------------
(* Properties *)

\* a row with its timestamp set aside
Fields(row) == [row EXCEPT !.timestamp = 0]

HasRow == cur # NoRow
HasTwoRows == cur # NoRow /\ prev # NoRow

\* the call whose outcome `result` holds has returned or raised
Finished == pc = "idle" /\ result \in {"series", "ZeroDivisionError"}

\* the request shape section 3 of the specification requires
ValidRequest(a) ==
    /\ a.hours >= 1
    /\ a.interval_minutes >= 1
    /\ a.interval_minutes <= a.hours * 60

\* C1: two calls of generate_bioreactor_timeseries with the same (valid)
\* arguments on the same generator produce the same rows, timestamps aside:
\* every row of a call equals the row of the same index of the previous call
\* when that call had the same arguments.
C1_SameArgsSameRows ==
    (HasRow /\ ref # NoCall /\ ValidRequest(args)) =>
        Fields(cur.row) = Fields(ref.row)

\* C2: a run is not affected by the runs before it: every row of a call
\* equals the row the same call produces alone, on a generator freshly
\* seeded with the same seed.
C2_RunEqualsRunAlone ==
    (/\ HasRow
     /\ ValidRequest(args)
     /\ prevCall # NoCall => ValidRequest(prevCall.args)) =>
        Fields(cur.row) = Fields(alone.row)

\* C3: for hours >= 1 and interval_minutes >= 1 the series has
\* floor(hours * 60 / interval_minutes) rows (hours * 60 / interval_minutes
\* when the interval divides the duration) and every row's timestamp is
\* strictly later than the timestamp of the row before it.
C3_LengthAndOrder ==
    (args # NoCall /\ args.hours >= 1 /\ args.interval_minutes >= 1) =>
        /\ (pc = "idle" /\ result = "series") =>
              /\ i * args.interval_minutes <= args.hours * 60
              /\ args.hours * 60 < (i + 1) * args.interval_minutes
        /\ HasTwoRows => prev.row.timestamp < cur.row.timestamp + elapsed

\* C3 witness: a returned series of 14 rows (168 h at 720 min) whose last
\* two timestamps were read one clock minute apart.
C3_Witness ==
    /\ pc = "idle" /\ result = "series"
    /\ args.hours = 168 /\ args.interval_minutes = 720
    /\ i = 14 /\ HasTwoRows /\ elapsed = 1

PhaseRank(p) ==
    CASE p = "lag" -> 0 [] p = "exponential" -> 1
      [] p = "stationary" -> 2 [] p = "death" -> 3

\* C4: the row of index k has elapsed time h = k * interval_minutes / 60;
\* h < 24 gives lag with growth factor 0.1, 24 <= h < 96 exponential with
\* (h - 24) / 72, 96 <= h < 144 stationary with 1.0, h >= 144 death; and the
\* phase of a row is never earlier than the phase of the row before it.
C4_PhaseFromElapsed ==
    HasRow =>
        LET m == (i - 1) * args.interval_minutes
            p == cur.row.phase
            gf == cur.growth_factor
        IN  /\ cur.minutes = m
            /\ (m < 24 * 60) => (p = "lag" /\ 10 * gf = GFScale)
            /\ (24 * 60 <= m /\ m < 96 * 60) =>
                  (p = "exponential" /\ gf * (72 * 60) = (m - 24 * 60) * GFScale)
            /\ (96 * 60 <= m /\ m < 144 * 60) => (p = "stationary" /\ gf = GFScale)
            /\ (144 * 60 <= m) => p = "death"
            /\ HasTwoRows => PhaseRank(prev.row.phase) <= PhaseRank(p)

\* C4 witness: the first exponential row, at exactly 24 h, after a lag row.
C4_Witness ==
    /\ HasTwoRows
    /\ prev.row.phase = "lag" /\ cur.row.phase = "exponential"
    /\ cur.minutes = 24 * 60 /\ cur.growth_factor = 0

\* C5: from one row to the next the growth factor does not decrease while
\* the phase is lag, exponential or stationary.
C5_GrowthFactorMonotone ==
    (HasTwoRows /\ cur.row.phase \in {"lag", "exponential", "stationary"}) =>
        prev.growth_factor <= cur.growth_factor

\* C6: in the death phase the growth factor is 1.0 - 0.0125 * (h - 144)
\* clamped at 0, and at every elapsed time it lies in [0, 1.05].
C6_DeathClampedAtZero ==
    HasRow =>
        /\ cur.row.phase = "death" =>
              cur.growth_factor * 80 =
                  PyMax(0, GFScale * 80 - (GFScale \div 60) * (cur.minutes - 144 * 60))
        /\ 0 <= cur.growth_factor
        /\ cur.growth_factor * 100 <= GFScale * 105

\* C7: a 24-hour series at 5-minute intervals has 288 rows and its last row,
\* at 23 h 55 min, is in the lag phase.
C7_Day288Lag ==
    (pc = "idle" /\ result = "series" /\ args.hours = 24 /\ args.interval_minutes = 5) =>
        /\ i = 288
        /\ cur.minutes = 23 * 60 + 55
        /\ cur.row.phase = "lag"

\* C7 witness: the 24-hour, 5-minute call has returned.
C7_Witness ==
    /\ pc = "idle" /\ result = "series"
    /\ args # NoCall /\ args.hours = 24 /\ args.interval_minutes = 5
    /\ HasTwoRows

\* C8: a call with non-positive hours or interval, or with the interval
\* longer than the duration, neither returns a series nor raises an
\* unrelated internal error.
C8_InvalidRequestRejected ==
    Finished => ValidRequest(args)

\* C9: in every row cell_density, viable_cell_count, glucose and lactate
\* are non-negative.
C9_NonNegative ==
    HasRow =>
        /\ cur.row.cell_density >= 0
        /\ cur.row.viable_cell_count >= 0
        /\ cur.row.glucose >= 0
        /\ cur.row.lactate >= 0

\* C9 witness: a lag-phase row whose cell density (0.45 before noise) was
\* brought to 0 by the clamp: the noise draw was below -4.5 sigma.
C9_Witness ==
    /\ HasRow
    /\ cur.row.phase = "lag"
    /\ cur.row.cell_density = 0

\* C10: in every row temperature is in [30, 42], ph in [5, 9] and
\* dissolved_oxygen in [0, 100].
C10_SensorRanges ==
    HasRow =>
        /\ 3000 <= cur.row.temperature /\ cur.row.temperature <= 4200
        /\ 500 <= cur.row.ph /\ cur.row.ph <= 900
        /\ 0 <= cur.row.dissolved_oxygen /\ cur.row.dissolved_oxygen <= 1000

\* the row the iteration about to run appends when anomaly injection is off,
\* and the state numpy's generator is left in
BaseIteration ==
    LoopBody(npState, pyState, [args EXCEPT !.add_anomalies = FALSE], i,
             Timestamp(args, num_points, i))

\* one loop iteration, compared with the same iteration without injection
C11_Step ==
    (pc = "loop" /\ i' = i + 1) =>
        LET base == BaseIteration.row
            row  == cur'.row
            dT   == row.temperature - base.temperature
            dPh  == row.ph - base.ph
        IN  /\ ~args.add_anomalies => (dT = 0 /\ dPh = 0)
            /\ \/ dT = 0 /\ dPh = 0
               \/ 50 <= dT /\ dT <= 100 /\ dPh = 0
               \/ dT = 0 /\ 30 <= dPh /\ dPh <= 50
            /\ [row EXCEPT !.temperature = 0, !.ph = 0]
                   = [base EXCEPT !.temperature = 0, !.ph = 0]
            /\ npState' = BaseIteration.np

\* C11: with anomaly injection off no row's temperature or ph receives an
\* excursion; with it on a step receives at most one excursion, temperature
\* raised by 0.5..1.0 or ph raised by 0.3..0.5 and never both, and the
\* excursion changes no other field of the row and no later row's noise
\* (numpy's generator is left as without injection).
C11_AnomalyExcursion == [][C11_Step]_vars

\* C11 witness: a row of a call with injection on whose temperature is
\* above 37.0 + NormMax * 0.05, beyond every noise draw: the step received
\* the temperature excursion.
C11_Witness ==
    /\ HasRow /\ args.add_anomalies
    /\ cur.row.temperature > 3700 + 5 * NormMax

\* C12: in the 168-hour, 60-minute run the mean cell_density of the first
\* 10 rows is strictly less than the mean of the last 10 rows, whatever the
\* noise draws (the means are the sums over 10 rows each).
C12_EarlyBelowLate ==
    (sample = TestRows) => early_density < late_density

\* C12 witness: the run has ended with every early draw at its largest and
\* every late draw at its smallest: early 10 * (0.45 + NormMax * 0.1), late
\* below the noiseless 34.59.
C12_Witness ==
    /\ sample = TestRows
    /\ early_density = MeanRows * (45 + 10 * NormMax)
    /\ late_density <= 3459 - MeanRows * 10 * (NormMax - 1)

\* the three bands of section 4.3, ends included
InBands(r) ==
    /\ 36900 <= r.temperature /\ r.temperature <= 37100
    /\ 6950 <= r.ph /\ r.ph <= 7050
    /\ 40000 <= r.dissolved_oxygen /\ r.dissolved_oxygen <= 50000

\* C13: a sample is flagged fully in spec, and the bioreactor reported
\* Operational rather than Warning, iff 36.9 <= temperature <= 37.1,
\* 6.95 <= ph <= 7.05 and 40 <= dissolved_oxygen <= 50; on a sample both
\* have evaluated, the flag is set iff the status is Operational.
C13_InSpecIffBands ==
    /\ all_specs_met # "unset" => ((all_specs_met = "True") <=> InBands(latest))
    /\ status # "unset" => ((status = "Operational") <=> InBands(latest))
    /\ (all_specs_met # "unset" /\ status # "unset") =>
          ((all_specs_met = "True") <=> (status = "Operational"))

\* C13 witness: a sample with temperature and dissolved oxygen on the lower
\* ends and ph on the upper end of the bands, flagged and Operational.
C13_Witness ==
    /\ latest # NoRow
    /\ latest.temperature = 36900 /\ latest.ph = 7050
    /\ latest.dissolved_oxygen = 40000
    /\ all_specs_met = "True" /\ status = "Operational"

RECURSIVE SumReadingCount(_, _)
\* sum of reading_count over the windows S of h
SumReadingCount(h, S) ==
    IF S = {} THEN 0
    ELSE LET w == CHOOSE x \in S : TRUE
         IN  h[w].reading_count + SumReadingCount(h, S \ {w})

\* C14: the windows partition the series: the reading_count of the windows
\* sums to the length of the series, no window has reading_count 0, and in
\* every window in_spec_count <= reading_count and spec_compliance_percent
\* is in_spec_count / reading_count * 100.
C14_WindowsPartition ==
    /\ SumReadingCount(hourly, DOMAIN hourly) = series_len
    /\ \A w \in DOMAIN hourly :
          LET g == hourly[w]
          IN  /\ g.reading_count >= 1
              /\ 0 <= g.in_spec_count /\ g.in_spec_count <= g.reading_count
              /\ g.spec_compliance_percent * g.reading_count
                     <= g.in_spec_count * 100000
              /\ g.in_spec_count * 100000
                     < (g.spec_compliance_percent + 1) * g.reading_count

\* C14 witness: four rows in two windows that are not adjacent (the hour
\* between them holds no row and has no window), one of them holding three
\* rows of which one is in spec.
C14_Witness ==
    /\ series_len = 4
    /\ Cardinality(DOMAIN hourly) = 2
    /\ \E w \in DOMAIN hourly :
          /\ w + HourMinutes \notin DOMAIN hourly
          /\ w + 2 * HourMinutes \in DOMAIN hourly
          /\ hourly[w].reading_count = 3
          /\ hourly[w].in_spec_count = 1
          /\ hourly[w].spec_compliance_percent = 33333

\* the bucket rule of section 4.4 for a score given in 1/one
BucketOf(score, one) ==
    IF 10 * score > 5 * one THEN "High"
    ELSE IF 10 * score > 2 * one THEN "Medium"
    ELSE "Low"

\* C15: the row emitted for a window has contamination_risk_score =
\* 2 * stddev(ph) + 5 * stddev(temperature) + (0.3 if mean dissolved oxygen
\* < 40 else 0.05) and its risk_level is the bucket of that score: High iff
\* score > 0.5, Medium iff 0.2 < score <= 0.5, Low otherwise.
C15_LevelFromFullScore ==
    (risk # NoRow /\ window_stats.reading_count >= 2) =>
        /\ risk.contamination_risk_score =
               {2 * window_stats.ph_instability + 5 * window_stats.temp_instability
                 + (IF window_stats.avg_do < 40000 THEN 300 ELSE 50)}
        /\ \A score \in risk.contamination_risk_score :
               risk.risk_level = BucketOf(score, 1000)

\* C16 as stated: every contamination risk score produced, by the windowed
\* scorer, by the alert generator and by the realtime-risk endpoint, lies
\* in [0, 1].
C16_ScoresInUnitRange ==
    /\ risk # NoRow =>
          \A score \in risk.contamination_risk_score : 0 <= score /\ score <= 1000
    /\ contam_alert # NoRow =>
          (0 <= contam_alert.risk_score /\ contam_alert.risk_score <= 100)
    /\ realtime # NoRow =>
          (0 <= realtime.risk_score /\ realtime.risk_score <= 1000)

\* C16 amended: the risk scores of the alert generator and of the
\* realtime-risk endpoint lie in [0, 1]; the windowed score, where the
\* window gives it a value, is 2 * stddev(ph) + 5 * stddev(temperature)
\* + (0.3 or 0.05), never below 0.05 and with no upper bound of 1.
C16_ScoreRanges ==
    /\ risk # NoRow =>
          \A score \in risk.contamination_risk_score :
              /\ score >= 50
              /\ score >= 2 * window_stats.ph_instability
                            + 5 * window_stats.temp_instability + 50
    /\ contam_alert # NoRow =>
          (0 <= contam_alert.risk_score /\ contam_alert.risk_score <= 100)
    /\ realtime # NoRow =>
          (0 <= realtime.risk_score /\ realtime.risk_score <= 1000)

\* C16 witness: the window of the scenario of section 8 (stddev(ph) 0.3,
\* stddev(temperature) 0.2, mean dissolved oxygen 35) scored 1.9, next to
\* an alert and a response whose draw 0.9999 was rounded to 1.0.
C16_Witness ==
    /\ risk # NoRow /\ contam_alert # NoRow /\ realtime # NoRow
    /\ window_stats.reading_count >= 2
    /\ window_stats.ph_instability = 300 /\ window_stats.temp_instability = 200
    /\ window_stats.avg_do = 35000
    /\ risk.contamination_risk_score = {1900}
    /\ contam_alert.risk_score = 100 /\ realtime.risk_score = 1000

\* C20: the alert generator, the realtime-risk endpoint and the windowed
\* scorer assign a risk score the level of the rule of section 4.4 (High
\* iff score > 0.5, Medium iff 0.2 < score <= 0.5, else Low), so any two of
\* them assign the same level to the same score.  Draws are in 1/10000.
C20_SameRiskLevelRule ==
    /\ contam_alert # NoRow => contam_alert.status = BucketOf(beta_draw, 10000)
    /\ realtime # NoRow => realtime.risk_level = BucketOf(beta_draw, 10000)
    /\ risk # NoRow =>
          \A score \in risk.contamination_risk_score :
              /\ risk.risk_level = BucketOf(score, 1000)
              /\ (contam_alert # NoRow /\ beta_draw = 10 * score) =>
                     contam_alert.status = risk.risk_level

\* C17: the health_score of a silver_equipment_health row is
\* 100 - 10 * vibration_level - runtime_hours / 500 clamped to [0, 100]; it
\* is never below 0 and never above 100.
C17_TelemetryHealthClamped ==
    (silver_health # NoRow /\ silver_health # Absent("dropped")) =>
        LET raw == 100000 - 10 * telemetry.vibration_level - 2 * telemetry.runtime_hours
        IN  /\ silver_health.health_score =
                   (IF raw < 0 THEN 0 ELSE IF raw > 100000 THEN 100000 ELSE raw)
            /\ 0 <= silver_health.health_score
            /\ silver_health.health_score <= 100000

\* C18: in every record generate_equipment_health returns, health_score
\* (tenths) and status satisfy health_score >= 85 -> Operational,
\* 70 <= health_score < 85 -> Warning, health_score < 70 -> Critical.
C18_ReturnedScoreAndStatus ==
    equipment # NoRow =>
        /\ equipment.health_score >= 850 => equipment.status = "Operational"
        /\ (700 <= equipment.health_score /\ equipment.health_score < 850) =>
              equipment.status = "Warning"
        /\ equipment.health_score < 700 => equipment.status = "Critical"

\* the category of a health score given in 1/one
Category(h, one) ==
    IF h >= 85 * one THEN "Operational"
    ELSE IF h >= 70 * one THEN "Warning"
    ELSE "Critical"

UrgencyOf(category) ==
    CASE category = "Operational" -> "Low"
      [] category = "Warning" -> "Medium"
      [] category = "Critical" -> "High"

\* C19: every site that buckets an equipment health score assigns the
\* score it is given the same category: >= 85 Operational / Low urgency (no
\* alert, no predictive-maintenance row), 70 to < 85 Warning / Medium,
\* < 70 Critical / High.
C19_SameHealthThresholds ==
    /\ equipment # NoRow =>
          equipment.status = Category(GeneratedHealth(draws), 1000)
    /\ (silver_health # NoRow /\ silver_health # Absent("dropped")) =>
          silver_health.status = Category(silver_health.health_score, 1000)
    /\ endpoint_health # NoRow =>
          /\ endpoint_health.status = Category(draws.uniform, 1000)
          /\ endpoint_health.maintenance_urgency = UrgencyOf(endpoint_health.status)
    /\ maint_alert # NoRow =>
          LET c == Category(equipment.health_score, 10)
          IN  IF c = "Operational" THEN maint_alert = Absent("none")
              ELSE maint_alert # Absent("none") /\ maint_alert.severity = c
    /\ predictive # NoRow =>
          LET c == Category(silver_health.health_score, 1000)
          IN  IF c = "Operational" THEN predictive = Absent("filtered")
              ELSE /\ predictive # Absent("filtered")
                   /\ predictive.maintenance_urgency = UrgencyOf(c)

\* C19 witness: all five sites have bucketed a score, three of them a score
\* on a threshold: telemetry health exactly 85 (Operational, no predictive
\* row), endpoint score exactly 70 (Warning), a record returned with 85.0
\* (no alert).
C19_Witness ==
    /\ silver_health # NoRow /\ silver_health # Absent("dropped")
    /\ silver_health.health_score = 85000 /\ silver_health.status = "Operational"
    /\ predictive = Absent("filtered")
    /\ endpoint_health # NoRow /\ draws.uniform = 70000
    /\ endpoint_health.status = "Warning"
    /\ equipment # NoRow /\ equipment.health_score = 850
    /\ maint_alert = Absent("none")

\* C21: a scorer given missing or empty input returns its neutral default
\* and no NULL score: a window of one reading is scored Low with a defined
\* score, and a batch whose bioreactor has no sensor rows gets the baseline
\* yield 90.
C21_NeutralDefaults ==
    /\ (risk # NoRow /\ window_stats.reading_count < 2) =>
          (risk.risk_level = "Low" /\ risk.contamination_risk_score # {})
    /\ \A row \in analytics :
          /\ row.predicted_yield # {}
          /\ (\E b \in BronzeBatches :
                 /\ b.batch_id = row.batch_id
                 /\ b.bioreactor_id \notin
                        {g.bioreactor_id : g \in BatchSensorAgg(silver_cells)})
             => row.predicted_yield = {90000}

\* C23: the sampled metrics of a generated batch record are inside their
\* clamp ranges after rounding (yield_percent in [75, 98], quality_score
\* in [85, 100], purity_percent in [95, 100], potency_percent in
\* [90, 110]), and the potency quality test derived from a record is Pass.
C23_BatchClampRanges ==
    /\ batch # NoRow =>
          /\ 750 <= batch.yield_percent /\ batch.yield_percent <= 980
          /\ 850 <= batch.quality_score /\ batch.quality_score <= 1000
          /\ 9500 <= batch.purity_percent /\ batch.purity_percent <= 10000
          /\ 900 <= batch.potency_percent /\ batch.potency_percent <= 1100
    /\ potency_test \in {"unset", "Pass"}

\* C23 witness: a record whose four draws were all outside their ranges,
\* clamped to the limits, and whose potency test was derived
C23_Witness ==
    /\ batch # NoRow /\ potency_test = "Pass"
    /\ batch_draws.yield = 120000 /\ batch.yield_percent = 980
    /\ batch_draws.quality = 70000 /\ batch.quality_score = 850
    /\ batch_draws.purity = 104000 /\ batch.purity_percent = 10000
    /\ batch_draws.potency = 130000 /\ batch.potency_percent = 1100

\* C22: every record of generate_equipment_health has a health_score in
\* [60, 100], whatever the days since maintenance in 0..180 and the wear
\* noise; the decay with maintenance age removes at most 40 points.
C22_GeneratedHealthRange ==
    equipment # NoRow =>
        /\ 600 <= equipment.health_score /\ equipment.health_score <= 1000
        /\ LET decay == (draws.days_since_maintenance * 40000) \div 180
           IN  0 <= decay /\ decay <= 40000

\* C22 witness: a record 180 days after maintenance (decay 40) with wear
\* noise of -15, held at 60.0
C22_Witness ==
    /\ equipment # NoRow
    /\ draws.days_since_maintenance = 180 /\ draws.wear = -15000
    /\ equipment.health_score = 600

\* C25: the maintenance-alert endpoint agrees with the record it is built
\* from: an alert exists iff the record's status is not Operational, and
\* its severity is the record's status.  (Alerts are returned sorted by
\* health_score; one record is followed here.)
C25_AlertAgreesWithRecord ==
    maint_alert # NoRow =>
        /\ (maint_alert # Absent("none")) <=> (equipment.status # "Operational")
        /\ maint_alert # Absent("none") => maint_alert.severity = equipment.status

\* t is not earlier than u
NotEarlier(t, u) ==
    \/ t.hour > u.hour
    \/ t.hour = u.hour /\ t.second > u.second
    \/ t.hour = u.hour /\ t.second = u.second /\ t.microsecond >= u.microsecond

\* C24: generate_audit_trail(n) and generate_contamination_alerts(n) return
\* exactly n entries, newest first: each entry's time is not earlier than
\* the next entry's, for every n >= 0.
C24_NewestFirst ==
    log_pc = "returned" =>
        /\ Len(listing) = log_call.num
        /\ {e.id : e \in {listing[k] : k \in 1..Len(listing)}} = 1..log_call.num
        /\ \A k \in 1..(Len(listing) - 1) :
              NotEarlier(listing[k].time, listing[k + 1].time)

\* C24 witness: three entries appended out of order, two of them within
\* the same second and one of these on the full second (its string has no
\* microseconds), returned newest first
C24_Witness ==
    /\ log_pc = "returned" /\ Len(listing) = 3
    /\ listing # log_entries
    /\ \E j, k \in 1..3 :
          /\ j < k
          /\ listing[j].time.hour = listing[k].time.hour
          /\ listing[j].time.second = listing[k].time.second
          /\ listing[k].time.microsecond = 0
          /\ listing[j].time.microsecond > 0

\* the step handled POST /{session_id}/action for a stored session
ActionStepOn(id) ==
    /\ sim_response'.op = "action" /\ sim_response'.session_id = id
    /\ id \in DOMAIN simulator_sessions

\* the session stored under id before and after the step is the same one
SameSession(id) ==
    /\ id \in DOMAIN simulator_sessions /\ id \in DOMAIN simulator_sessions'
    /\ simulator_sessions'[id].serial = simulator_sessions[id].serial

C26_Step ==
    /\ \A id \in DOMAIN simulator_sessions' :
          LET session == simulator_sessions'[id]
          IN  (session.status = "completed") <=>
                 (\A ca \in CorrectActions(session.scenario) :
                      CopiesIn(ca, session.actions_taken) >= 1)
    /\ \A id \in DOMAIN simulator_sessions :
          (simulator_sessions[id].status = "completed" /\ SameSession(id)) =>
              simulator_sessions'[id] = simulator_sessions[id]
    /\ \A id \in DOMAIN simulator_sessions :
          (ActionStepOn(id) /\ simulator_sessions[id].status = "completed") =>
              /\ sim_response'.code = 400
              /\ sim_response'.detail = "Session is not active"
              /\ simulator_sessions' = simulator_sessions

\* C26: the status of a session is 'completed' iff every one of its
\* scenario's correct_actions has been performed at least once, in any
\* order and with wrong actions between them; a completed session never
\* changes again, and an action sent to it is rejected with 400 'Session
\* is not active', leaving score, actions_taken and time_elapsed_minutes
\* as they were.
C26_CompletedIffAllDone == [][C26_Step]_vars

\* C26 witness: a session completed by its five correct actions and one
\* wrong action, and a further action rejected with 400
C26_Witness ==
    /\ sim_response # NoCall
    /\ sim_response.op = "action" /\ sim_response.code = 400
    /\ sim_response.session_id \in DOMAIN simulator_sessions
    /\ LET session == simulator_sessions[sim_response.session_id]
       IN  /\ session.status = "completed"
           /\ BagCardinality(session.actions_taken) = 6
           /\ BagIn("schedule_immediate_inspection", session.actions_taken)
           /\ session.score = 5 * 20 - 5

\* the correct actions a session has performed, each counted once
DistinctCorrect(session) ==
    Cardinality({a \in CorrectActions(session.scenario) :
                    CopiesIn(a, session.actions_taken) >= 1})

\* C27: get_simulator_status reports progress_percent <= 100 and a count
\* of completed objectives that does not exceed the number of objectives,
\* and so does the summary; a correct action performed more than once
\* counts as one completed objective.
C27_ProgressBounded ==
    (/\ sim_response # NoCall
     /\ sim_response.op \in {"status", "summary"}
     /\ sim_response.code = 200
     /\ sim_response.session_id \in DOMAIN simulator_sessions) =>
        /\ sim_response.completed_objectives <= sim_response.total_objectives
        /\ sim_response.op = "status" => sim_response.progress_percent <= 1000
        /\ sim_response.completed_objectives =
               DistinctCorrect(simulator_sessions[sim_response.session_id])

\* records of session whose action is in S, repeated ones counted each time
RecordsIn(session, S) ==
    LET RECURSIVE Sum(_)
        Sum(names) ==
            IF names = {} THEN 0
            ELSE LET a == CHOOSE x \in names : TRUE
                 IN  CopiesIn(a, session.actions_taken) + Sum(names \ {a})
    IN  Sum(BagToSet(session.actions_taken) \cap S)

C28_Step ==
    /\ \A id \in DOMAIN simulator_sessions' :
          LET session == simulator_sessions'[id]
              P == IF session.difficulty = "hard" THEN 20
                   ELSE IF session.difficulty = "medium" THEN 15 ELSE 10
              correct == RecordsIn(session, CorrectActions(session.scenario))
          IN  session.score =
                 P * correct - 5 * (BagCardinality(session.actions_taken) - correct)
    /\ \A id \in DOMAIN simulator_sessions :
          (ActionStepOn(id) /\ sim_response'.code = 200) =>
              /\ SameSession(id)
              /\ BagCardinality(simulator_sessions'[id].actions_taken) =
                     BagCardinality(simulator_sessions[id].actions_taken) + 1
              /\ sim_response'.total_score = simulator_sessions'[id].score

\* C28: a session's score is P * (recorded actions that are in
\* correct_actions) - 5 * (recorded actions that are not), with P = 20 for
\* difficulty 'hard', 15 for 'medium' and 10 for any other; an accepted
\* action appends exactly one record, and the total_score it returns is
\* the stored score.
C28_ScoreFormula == [][C28_Step]_vars

\* C28 witness: sessions of each difficulty class with correct, repeated
\* and wrong actions recorded, the last action accepted
C28_Witness ==
    /\ sim_response # NoCall
    /\ sim_response.op = "action" /\ sim_response.code = 200
    /\ sim_response.session_id \in DOMAIN simulator_sessions
    /\ LET session == simulator_sessions[sim_response.session_id]
       IN  /\ session.difficulty = "hard"
           /\ CopiesIn("stop_feeding", session.actions_taken) = 2
           /\ CopiesIn("schedule_immediate_inspection", session.actions_taken) = 3
           /\ session.score = 2 * 20 - 3 * 5
           /\ sim_response.total_score = 25

C29_Step ==
    /\ Cardinality(DOMAIN simulator_sessions') =
          sim_created' - Cardinality(sim_deleted')
    /\ sim_created' = sim_created + 1 =>
          /\ sim_response'.session_id \notin DOMAIN simulator_sessions
          /\ \A id \in DOMAIN simulator_sessions :
                SameSession(id) /\ simulator_sessions'[id] = simulator_sessions[id]
    /\ \A id \in DOMAIN simulator_sessions :
          ActionStepOn(id) =>
              \A other \in DOMAIN simulator_sessions \ {id} :
                  SameSession(other)
                    /\ simulator_sessions'[other] = simulator_sessions[other]

\* C29: create_simulator_session never overwrites an existing session: a
\* created session gets an id no stored session has, every session created
\* and not deleted stays stored, and an action on one session changes no
\* field of another.
C29_SessionsDistinct == [][C29_Step]_vars

\* the step's request named an id under which no session is stored
RequestOnAbsent ==
    /\ sim_response'.op \in {"status", "action", "summary", "delete"}
    /\ sim_response'.session_id \notin DOMAIN simulator_sessions

C30_Step ==
    /\ RequestOnAbsent =>
          sim_response'.code = 404 /\ simulator_sessions' = simulator_sessions
    /\ sim_response'.code = 404 => RequestOnAbsent
    /\ (sim_response'.op = "create" /\ sim_response'.code = 400) =>
          simulator_sessions' = simulator_sessions
    /\ (sim_response'.op = "delete" /\ sim_response'.code = 200) =>
          sim_response'.session_id \notin DOMAIN simulator_sessions'
    /\ \A d \in sim_deleted' : d[1] \notin DOMAIN simulator_sessions'

\* C30: status, action, summary and delete on an id that was never created
\* or has been deleted return 404 and change no session; create with an
\* unknown scenario returns 400 and stores nothing; after a successful
\* delete the id is absent, and stays absent for every later operation.
C30_ErrorPathsPure == [][C30_Step]_vars
====
